---- MODULE Spec2Model ----
(***************************************************************************)
(* Replication, health monitoring and failover of the marketplace nodes of *)
(* src/exp5_enhanced_server.py (class EnhancedMarketplaceNode): one node   *)
(* started as primary on port 8000 and two nodes started as backups on     *)
(* ports 8001 and 8002.  A node is identified by its port, and so is the    *)
(* entry "backup-<port>" of a load balancer's list.  The load balancer of  *)
(* a primary (class LoadBalancer) is kept as functions of the port of the  *)
(* node that owns it.                                                      *)
(*                                                                         *)
(* Left out of a transaction and of a response: the timestamp and the      *)
(* transaction_id (an md5 of node id, wall clock and version), which no    *)
(* handler reads.  The nested inventory areas -> shops -> products is kept *)
(* as one mapping from (area, shop, product) to the quantity; add_stock    *)
(* never leaves an area or a shop empty, so the two forms agree.           *)
(***************************************************************************)
EXTENDS Integers, Sequences, FiniteSets, TLC

VARIABLES
    is_primary,        \* [port -> BOOLEAN]          self.is_primary
    reachable,         \* [port -> BOOLEAN]          the node answers requests and opens connections
    inventory,         \* [port -> [key -> Nat]]     self.inventory
    version_number,    \* [port -> Nat]              self.version_number
    transaction_log,   \* [port -> Seq(transaction)] self.transaction_log
    last_heartbeat,    \* [port -> time]             self.last_heartbeat
    backup_ports,      \* [port -> Seq(port)]        self.backup_ports
    now,               \* time.time(), in seconds
    repl_pending,      \* send_to_backup threads started, message not yet serialised
    repl_sent,         \* replicate messages on the wire
    sync_pending,      \* sync_backup calls whose message is built, not yet serialised
    sync_sent,         \* sync_request messages on the wire
    heartbeats,        \* heartbeat messages on the wire, <<from, to>>
    response,          \* the response the last step sent to its caller, if it sent one
    load_balancer,     \* [port -> BOOLEAN]          self.load_balancer is not None
    current_algorithm, \* [port -> algorithm name]  load_balancer.current_algorithm
    round_robin_index, \* [port -> Nat]             load_balancer.round_robin_index
    active_nodes,      \* [port -> Seq(port)]       load_balancer.active_nodes
    node_connections,  \* [port -> [port -> Nat]]   load_balancer.node_connections
    node_response_times, \* [port -> [port -> Seq(Nat)]] load_balancer.node_response_times
    node_weights,      \* [port -> [port -> weight]]  load_balancer.node_weights
    forwards,          \* forward_read_request calls under way
    tuning             \* nodes whose load_balancer_monitor is about to call set_algorithm

vars == <<is_primary, reachable, inventory, version_number, transaction_log,
          last_heartbeat, backup_ports, now, repl_pending, repl_sent,
          sync_pending, sync_sent, heartbeats, response,
          load_balancer, current_algorithm, round_robin_index, active_nodes,
          node_connections, node_response_times, node_weights, forwards, tuning>>

\* The fields of the LoadBalancer objects and the reads they are forwarding.
lbvars == <<load_balancer, current_algorithm, round_robin_index, active_nodes,
            node_connections, node_response_times, node_weights, forwards, tuning>>

(* ------------------------------ bounds -------------------------------- *)

MaxVersion == 2

MaxQty == 2

MaxAddQty == 1

MaxTime == 15

ClockStep == 5

MaxDown == 1

MaxHeartbeats == 1

MaxLogLen == 2

MaxFailoverVersion == 1

MaxSamples == 2

\* Nodes a search may pass through before the model stops following it.
MaxHops == 3

\* The longest response time of a forwarded search, in seconds.
MaxLatency == 1

\* The longest response time update_node_metrics is called with on its own.
MaxMetricTime == 1

\* The largest denominator a weight may reach by repeated scaling.
MaxDenominator == 1000

\* time.time() - start_time of a forward_read_request call: it spans a
\* connect, so it is above 0.
Latencies == 1 .. MaxLatency

\* Writes committed and replicated before a long-run specification starts.
LogBase == 99

(* ------------------------- program constants -------------------------- *)

PrimaryPort == 8000

BackupPortList == <<8001, 8002>>

Ports == {PrimaryPort} \cup {BackupPortList[i] : i \in DOMAIN BackupPortList}

NoAddress == 0

heartbeat_timeout == 10

SyncLogWindow == 50

LogKeep == 100

ResponseTimesKept == 10

StatsWindow == 5

\* handle_client reads a request with one recv(2048).
RecvBuffer == 2048

\* Bytes of json.dumps of the inventory (the 32 initial entries and the test
\* product) and of one transaction record, as the program formats them.
InventoryBytes == 734

TransactionBytes == 200

Laptop == <<"andheri", "Tech_Store", "laptop">>

TestProduct == <<"test_area", "test_shop", "test_product">>

Keys == {TestProduct}

Quantities == 1 .. MaxQty

AddQuantities == 1 .. MaxAddQty

NoResponse == [status |-> "none"]

\* load_initial_data, cut down to one of its 32 entries (area, shop, product
\* flattened into one key); the other entries are handled by the same code.
load_initial_data == (Laptop :> 5)

primary_address(n) == IF n = PrimaryPort THEN NoAddress ELSE PrimaryPort

LastN(s, k) == IF Len(s) <= k THEN s ELSE SubSeq(s, Len(s) - k + 1, Len(s))

SeqToSet(s) == {s[i] : i \in DOMAIN s}

\* sum(list)
RECURSIVE Sum(_)
Sum(s) == IF s = <<>> THEN 0 ELSE Head(s) + Sum(Tail(s))

\* A weight is a fraction <<numerator, denominator>> in lowest terms.
RECURSIVE GCD(_, _)
GCD(a, b) == IF b = 0 THEN a ELSE GCD(b, a % b)

Frac(a, b) == <<a \div GCD(a, b), b \div GCD(a, b)>>

\* The weight 1.0 that set_active_nodes gives a node it has not seen and that
\* node_weights.get(node, 1.0) reads for a node without an entry.
DefaultWeight == <<1, 1>>

\* The node has no entry in the node_weights dict.
NoWeight == <<>>

(* ------------------------------- Init --------------------------------- *)

Init ==
    /\ is_primary = [n \in Ports |-> n = PrimaryPort]
    /\ reachable = [n \in Ports |-> TRUE]
    /\ inventory = [n \in Ports |-> load_initial_data]
    /\ version_number = [n \in Ports |-> 0]
    /\ transaction_log = [n \in Ports |-> <<>>]
    /\ last_heartbeat = [n \in Ports |-> 0]
    /\ backup_ports = [n \in Ports |-> IF n = PrimaryPort THEN BackupPortList ELSE <<>>]
    /\ now = 0
    /\ repl_pending = {}
    /\ repl_sent = {}
    /\ sync_pending = {}
    /\ sync_sent = {}
    /\ heartbeats = {}
    /\ response = NoResponse
    /\ load_balancer = [n \in Ports |-> n = PrimaryPort]
    /\ current_algorithm = [n \in Ports |-> "round_robin"]
    /\ round_robin_index = [n \in Ports |-> 0]
    /\ active_nodes = [n \in Ports |-> <<>>]
    /\ node_connections = [n \in Ports |-> [b \in Ports |-> 0]]
    /\ node_response_times = [n \in Ports |-> [b \in Ports |-> <<>>]]
    /\ node_weights = [n \in Ports |-> [b \in Ports |-> NoWeight]]
    /\ forwards = {}
    /\ tuning = {}

(* ----------------------------- the writes ----------------------------- *)

\* replicate_to_backups: one send_to_backup thread per configured backup; the
\* message holds the version as a number and the inventory by reference.
replicate_to_backups_sequential(n, transaction, version) ==
    repl_pending' = repl_pending \cup
        {[src |-> n, dst |-> backup_ports[n][i], transaction |-> transaction,
          version |-> version]
            : i \in {j \in DOMAIN backup_ports[n] :
                        \A h \in 1 .. j : reachable[backup_ports[n][h]]}}

replicate_to_backups(n, transaction, version) ==
    repl_pending' = repl_pending \cup
        {[src |-> n, dst |-> b, transaction |-> transaction, version |-> version]
            : b \in SeqToSet(backup_ports[n])}

\* 'if current_qty >= quantity'.
has_stock_any(n, k, q) == inventory[n][k] > 0

has_stock(n, k, q) == inventory[n][k] >= q

\* The transaction of a buy, built before the commit.
buy_transaction(n, k, q) ==
    [type |-> "buy", key |-> k, quantity |-> q, version |-> version_number[n] + 1]

\* The answer of a committed buy, read from the fields after the commit.
buy_response_stale(n, k) ==
    [status |-> "success", message |-> "Purchased",
     remaining_quantity |-> inventory[n][k],
     version |-> version_number'[n],
     processed_by |-> n]

buy_response(n, k) ==
    [status |-> "success", message |-> "Purchased",
     remaining_quantity |-> inventory'[n][k],
     version |-> version_number'[n],
     processed_by |-> n]

\* An error answer of buy_product: nothing is written.
reject_logged(n, message) ==
    /\ response' = [status |-> "error", message |-> message]
    /\ transaction_log' = [transaction_log EXCEPT ![n] =
            Append(@, [type |-> "buy", key |-> TestProduct, quantity |-> 0,
                       version |-> version_number[n]])]
    /\ UNCHANGED <<inventory, version_number, repl_pending>>

reject(n, message) ==
    /\ response' = [status |-> "error", message |-> message]
    /\ UNCHANGED <<inventory, version_number, transaction_log, repl_pending>>

\* buy_product, the part under data_lock.
buy_locked(n, k, q) ==
    IF k \in DOMAIN inventory[n]
    THEN IF has_stock(n, k, q)
         THEN /\ inventory' = [inventory EXCEPT ![n][k] = @ - q]
              /\ version_number' = [version_number EXCEPT ![n] = @ + 1]
              /\ transaction_log' = [transaction_log EXCEPT ![n] =
                      Append(@, buy_transaction(n, k, q))]
              /\ IF is_primary[n]
                 THEN replicate_to_backups(n, buy_transaction(n, k, q), version_number'[n])
                 ELSE UNCHANGED repl_pending
              /\ response' = buy_response(n, k)
         ELSE reject(n, "Insufficient quantity")
    ELSE reject(n, "Product not found")

\* The transaction of an add_stock, built after the version is incremented.
add_transaction_early(n, k, q) ==
    [type |-> "add_stock", key |-> k, quantity |-> q, version |-> version_number[n]]

add_transaction(n, k, q) ==
    [type |-> "add_stock", key |-> k, quantity |-> q, version |-> version_number'[n]]

add_response_zero(n, k) ==
    [status |-> "success", message |-> "Added",
     new_quantity |-> 0,
     version |-> version_number'[n],
     processed_by |-> n]

add_response(n, k) ==
    [status |-> "success", message |-> "Added",
     new_quantity |-> inventory'[n][k],
     version |-> version_number'[n],
     processed_by |-> n]

\* add_stock, the part under data_lock.
add_stock_locked_overwrite(n, k, q) ==
    /\ inventory' = [inventory EXCEPT ![n] = (k :> q) @@ @]
    /\ version_number' = [version_number EXCEPT ![n] = @ + 1]
    /\ transaction_log' = [transaction_log EXCEPT ![n] =
            Append(@, add_transaction(n, k, q))]
    /\ IF is_primary[n]
       THEN replicate_to_backups(n, add_transaction(n, k, q), version_number'[n])
       ELSE UNCHANGED repl_pending
    /\ response' = add_response(n, k)

add_stock_locked(n, k, q) ==
    /\ inventory' = [inventory EXCEPT ![n] =
            IF k \in DOMAIN @ THEN [@ EXCEPT ![k] = @ + q] ELSE (k :> q) @@ @]
    /\ version_number' = [version_number EXCEPT ![n] = @ + 1]
    /\ transaction_log' = [transaction_log EXCEPT ![n] =
            Append(@, add_transaction(n, k, q))]
    /\ IF is_primary[n]
       THEN replicate_to_backups(n, add_transaction(n, k, q), version_number'[n])
       ELSE UNCHANGED repl_pending
    /\ response' = add_response(n, k)

\* The handler of the node a write is forwarded to.  The only address a node
\* forwards to is port 8000, whose own primary_address is None: it applies the
\* write under its lock whatever its role.
remote_write(m, type, k, q) ==
    IF type = "buy" THEN buy_locked(m, k, q) ELSE add_stock_locked(m, k, q)

\* forward_to_primary: connect to self.primary_address, send, return the answer;
\* any exception gives the 'Primary node unavailable' error.
forward_to_primary_fallback(n, type, k, q) ==
    IF reachable[primary_address(n)]
    THEN remote_write(primary_address(n), type, k, q)
    ELSE remote_write(n, type, k, q)

forward_to_primary(n, type, k, q) ==
    IF reachable[primary_address(n)]
    THEN remote_write(primary_address(n), type, k, q)
    ELSE reject(n, "Primary node unavailable")

buy_product(n, k, q) ==
    IF ~is_primary[n] /\ primary_address(n) # NoAddress
    THEN forward_to_primary(n, "buy", k, q)
    ELSE buy_locked(n, k, q)

add_stock(n, k, q) ==
    IF ~is_primary[n] /\ primary_address(n) # NoAddress
    THEN forward_to_primary(n, "add_stock", k, q)
    ELSE add_stock_locked(n, k, q)

\* A client's buy request received by node n (handle_client, process_request).
ClientBuy(n, k, q) ==
    /\ reachable[n]
    /\ buy_product(n, k, q)
    /\ UNCHANGED <<is_primary, reachable, last_heartbeat, backup_ports, now,
                   repl_sent, sync_pending, sync_sent, heartbeats>>
    /\ UNCHANGED lbvars

\* process_request: request.get('quantity', 1) of a buy request, here the pair
\* <<key, quantity>> or, without a quantity, <<key>>.
request_quantity(request, default) ==
    IF Len(request) >= 2 THEN request[2] ELSE default

\* A client's buy request as it arrives, with or without a quantity.
ClientBuyRequest(n, request) ==
    ClientBuy(n, request[1], request_quantity(request, 1))

\* A client's add_stock request received by node n.
ClientAddStock(n, k, q) ==
    /\ reachable[n]
    /\ add_stock(n, k, q)
    /\ UNCHANGED <<is_primary, reachable, last_heartbeat, backup_ports, now,
                   repl_sent, sync_pending, sync_sent, heartbeats>>
    /\ UNCHANGED lbvars

(* ---------------------------- replication ----------------------------- *)

\* send_to_backup: connect, then json.dumps(message): the inventory is read now.
\* A refused connection ends the thread (the exception is logged).
send_to_backup(t) ==
    /\ repl_pending' = repl_pending \ {t}
    /\ IF reachable[t.src] /\ reachable[t.dst]
       THEN repl_sent' = repl_sent \cup
                {[dst |-> t.dst, transaction |-> t.transaction,
                  full_state |-> inventory[t.src], version |-> t.version]}
       ELSE UNCHANGED repl_sent

ReplSend(t) ==
    /\ t \in repl_pending
    /\ send_to_backup(t)
    /\ UNCHANGED <<is_primary, reachable, inventory, version_number, transaction_log,
                   last_heartbeat, backup_ports, now, sync_pending, sync_sent,
                   heartbeats>>
    /\ response' = NoResponse
    /\ UNCHANGED lbvars

\* json.dumps of a replicate message: the envelope, the inventory and one
\* transaction.
replicate_bytes(m) == 68 + InventoryBytes + TransactionBytes

\* handle_client: the request is what one recv returns; json.loads of a cut
\* message raises, the exception is logged and no handler runs.
received_whole(bytes) == bytes <= RecvBuffer

\* handle_replication on the receiving node.
handle_replication(n, m) ==
    IF is_primary[n]
    THEN UNCHANGED <<inventory, version_number, transaction_log>>
    ELSE /\ inventory' = [inventory EXCEPT ![n] = m.full_state]
         /\ version_number' = [version_number EXCEPT ![n] = m.version]
         /\ transaction_log' = [transaction_log EXCEPT ![n] = Append(@, m.transaction)]

ReplDeliver(m) ==
    /\ m \in repl_sent
    /\ repl_sent' = repl_sent \ {m}
    /\ IF received_whole(replicate_bytes(m))
       THEN handle_replication(m.dst, m)
       ELSE UNCHANGED <<inventory, version_number, transaction_log>>
    /\ UNCHANGED <<is_primary, reachable, last_heartbeat, backup_ports, now,
                   repl_pending, sync_pending, sync_sent, heartbeats>>
    /\ response' = NoResponse
    /\ UNCHANGED lbvars

(* --------------------------- health monitor --------------------------- *)

\* sync_backup, up to the connect: the message is built from the version number
\* and a copy of the last 50 log entries; the inventory is held by reference.
sync_backup(p, b) ==
    sync_pending' = sync_pending \cup
        {[src |-> p, dst |-> b, version |-> version_number[p],
          transaction_log |-> LastN(transaction_log[p], SyncLogWindow)]}

\* backup_monitor's test on the status a backup answered.
backup_behind_or_level(p, b) == version_number[b] <= version_number[p]

backup_behind(p, b) == version_number[b] < version_number[p]

\* backup_monitor, one backup of the cycle: the get_status probe and, when the
\* backup reports a lower version, the start of sync_backup.  The monitor thread
\* waits inside sync_backup, so it has at most one sync under way.
MonitorProbe(p, b) ==
    /\ is_primary[p]
    /\ b \in SeqToSet(backup_ports[p])
    /\ reachable[p] /\ reachable[b]
    /\ \A s \in sync_pending \cup sync_sent : s.src # p
    /\ IF backup_behind(p, b)
       THEN sync_backup(p, b)
       ELSE UNCHANGED sync_pending
    /\ UNCHANGED <<is_primary, reachable, inventory, version_number, transaction_log,
                   last_heartbeat, backup_ports, now, repl_pending, repl_sent,
                   sync_sent, heartbeats>>
    /\ response' = NoResponse
    /\ UNCHANGED lbvars

\* sync_backup, connect and json.dumps(sync_message): the inventory is read now.
SyncSend(s) ==
    /\ s \in sync_pending
    /\ sync_pending' = sync_pending \ {s}
    /\ IF reachable[s.src] /\ reachable[s.dst]
       THEN sync_sent' = sync_sent \cup
                {[src |-> s.src, dst |-> s.dst, full_state |-> inventory[s.src],
                  transaction_log |-> s.transaction_log, version |-> s.version]}
       ELSE UNCHANGED sync_sent
    /\ UNCHANGED <<is_primary, reachable, inventory, version_number, transaction_log,
                   last_heartbeat, backup_ports, now, repl_pending, repl_sent,
                   heartbeats>>
    /\ response' = NoResponse
    /\ UNCHANGED lbvars

\* json.dumps of a sync_request message: the envelope, the inventory and the
\* log entries with their separators.
sync_bytes(m) ==
    77 + InventoryBytes + Len(m.transaction_log) * TransactionBytes
       + (IF Len(m.transaction_log) > 1 THEN 2 * (Len(m.transaction_log) - 1) ELSE 0)

\* handle_sync_request, the log: extend with the entries of the message, then
\* keep the last 100.
sync_log(log, m) == LastN(log \o m.transaction_log, LogKeep)

\* handle_sync_request on the receiving node.
handle_sync_request_stepdown(n, m) ==
    /\ inventory' = [inventory EXCEPT ![n] = m.full_state]
    /\ version_number' = [version_number EXCEPT ![n] = m.version]
    /\ transaction_log' = [transaction_log EXCEPT ![n] = sync_log(@, m)]
    /\ last_heartbeat' = [last_heartbeat EXCEPT ![n] = now]
    /\ is_primary' = [is_primary EXCEPT ![n] = FALSE]

handle_sync_request(n, m) ==
    /\ inventory' = [inventory EXCEPT ![n] = m.full_state]
    /\ version_number' = [version_number EXCEPT ![n] = m.version]
    /\ transaction_log' = [transaction_log EXCEPT ![n] = sync_log(@, m)]
    /\ last_heartbeat' = [last_heartbeat EXCEPT ![n] = now]
    /\ UNCHANGED is_primary

SyncDeliver(m) ==
    /\ m \in sync_sent
    /\ sync_sent' = sync_sent \ {m}
    /\ IF received_whole(sync_bytes(m))
       THEN handle_sync_request(m.dst, m)
       ELSE UNCHANGED <<is_primary, inventory, version_number, transaction_log,
                        last_heartbeat>>
    /\ UNCHANGED <<reachable, backup_ports, now, repl_pending, repl_sent,
                   sync_pending, heartbeats>>
    /\ response' = NoResponse
    /\ UNCHANGED lbvars

\* heartbeat_sender, one backup of the round: connect and send, no answer read.
HeartbeatSend(p, b) ==
    /\ is_primary[p]
    /\ b \in SeqToSet(backup_ports[p])
    /\ reachable[p] /\ reachable[b]
    /\ <<p, b>> \notin heartbeats
    /\ Cardinality(heartbeats) < MaxHeartbeats
    /\ heartbeats' = heartbeats \cup {<<p, b>>}
    /\ UNCHANGED <<is_primary, reachable, inventory, version_number, transaction_log,
                   last_heartbeat, backup_ports, now, repl_pending, repl_sent,
                   sync_pending, sync_sent>>
    /\ response' = NoResponse
    /\ UNCHANGED lbvars

\* process_request for a message of type 'heartbeat': no branch names the type,
\* the answer is the 'Invalid request type' error and no field is written.
process_heartbeat(n) ==
    UNCHANGED <<inventory, version_number, transaction_log, last_heartbeat>>

HeartbeatDeliver(p, b) ==
    /\ <<p, b>> \in heartbeats
    /\ heartbeats' = heartbeats \ {<<p, b>>}
    /\ process_heartbeat(b)
    /\ UNCHANGED <<is_primary, reachable, backup_ports, now, repl_pending, repl_sent,
                   sync_pending, sync_sent>>
    /\ response' = NoResponse
    /\ UNCHANGED lbvars

(* ------------------------------ failover ------------------------------ *)

\* initiate_failover: the role, the backup list, and a new LoadBalancer whose
\* active nodes are set to the new backup list.
initiate_failover(n) ==
    /\ is_primary' = [is_primary EXCEPT ![n] = TRUE]
    /\ backup_ports' = [backup_ports EXCEPT ![n] = SelectSeq(BackupPortList, LAMBDA p : p # n)]
    /\ load_balancer' = [load_balancer EXCEPT ![n] = TRUE]
    /\ current_algorithm' = [current_algorithm EXCEPT ![n] = "round_robin"]
    /\ round_robin_index' = [round_robin_index EXCEPT ![n] = 0]
    /\ active_nodes' = [active_nodes EXCEPT ![n] = backup_ports'[n]]
    /\ node_connections' = [node_connections EXCEPT ![n] = [b \in Ports |-> 0]]
    /\ node_response_times' = [node_response_times EXCEPT ![n] = [b \in Ports |-> <<>>]]
    /\ node_weights' = [node_weights EXCEPT ![n] =
            [b \in Ports |-> IF b \in SeqToSet(backup_ports'[n])
                             THEN DefaultWeight ELSE NoWeight]]

\* heartbeat_monitor, one pass of the loop of a node that is not primary.
heartbeat_monitor_exclusive(n) ==
    /\ ~is_primary[n]
    /\ now - last_heartbeat[n] > heartbeat_timeout
    /\ \A i \in DOMAIN BackupPortList : ~is_primary[BackupPortList[i]]
    /\ initiate_failover(n)
    /\ UNCHANGED <<reachable, inventory, version_number, transaction_log,
                   last_heartbeat, now, repl_pending, repl_sent, sync_pending,
                   sync_sent, heartbeats>>
    /\ response' = NoResponse
    /\ UNCHANGED <<forwards, tuning>>

heartbeat_monitor(n) ==
    /\ ~is_primary[n]
    /\ now - last_heartbeat[n] > heartbeat_timeout
    /\ initiate_failover(n)
    /\ UNCHANGED <<reachable, inventory, version_number, transaction_log,
                   last_heartbeat, now, repl_pending, repl_sent, sync_pending,
                   sync_sent, heartbeats>>
    /\ response' = NoResponse
    /\ UNCHANGED <<forwards, tuning>>

(* --------------------------- load balancer ---------------------------- *)

\* The names LoadBalancer.algorithms knows.
Algorithms == {"round_robin", "weighted", "least_connections", "hash_based"}

\* The names a load_balancer_config request may carry: the four above and one
\* that is not an algorithm.
ConfigNames == Algorithms \cup {"fastest"}

\* The local ports the clients' connections come from: every request is sent
\* over a new socket.
ClientPorts == {50001, 50002}

SearchProducts == {"laptop"}

\* handle_client: request['client_id'] = "<peer address>:<peer port>", in
\* place of whatever client_id the request carried.
client_id(peer) == <<"127.0.0.1", peer>>

\* int(md5(str(client_id)).hexdigest(), 16), its low 16 bits: md5 of
\* "127.0.0.1:50001" ends in 0x7709 and md5 of "127.0.0.1:50002" in 0xfc7e.
\* The value is only taken modulo the number of active nodes, 1 or 2.
md5_low16(cid) == IF cid[2] = 50001 THEN 30473 ELSE 64638

\* What the connection gets when handle_client catches an exception: the
\* socket is closed and nothing is sent.
Dropped == [status |-> "dropped"]

\* search_product on node n.
search_product(n, product) ==
    [status |-> "success",
     product |-> product,
     results |-> {[key |-> k, quantity |-> inventory[n][k], node |-> n]
                    : k \in {j \in DOMAIN inventory[n] :
                                j[3] = product /\ inventory[n][j] > 0}},
     version |-> version_number[n],
     served_by |-> n]

\* round_robin: active_nodes[round_robin_index] raises IndexError when the
\* index is not below the length of the list.
round_robin_raises(n) == round_robin_index[n] >= Len(active_nodes[n])

\* node = active_nodes[index]; index = (index + 1) % len(active_nodes).
round_robin_select(nodes, index) ==
    [node |-> nodes[index + 1], index |-> (index + 1) % Len(nodes)]

round_robin(n) == round_robin_select(active_nodes[n], round_robin_index[n])

\* node_weights.get(node, 1.0)
weight_of(weights, b) == IF weights[b] = NoWeight THEN DefaultWeight ELSE weights[b]

\* The weights of the nodes of a list brought to one denominator, the product
\* of theirs: the sums and comparisons of weighted_round_robin in whole numbers.
RECURSIVE common_denominator(_, _)
common_denominator(nodes, weights) ==
    IF nodes = <<>> THEN 1
    ELSE weight_of(weights, Head(nodes))[2] * common_denominator(Tail(nodes), weights)

scaled_weight(nodes, weights, b) ==
    weight_of(weights, b)[1] * (common_denominator(nodes, weights) \div weight_of(weights, b)[2])

\* total_weight = sum(node_weights.get(node, 1.0) for node in active_nodes)
RECURSIVE total_weight(_, _, _)
total_weight(rest, nodes, weights) ==
    IF rest = <<>> THEN 0
    ELSE scaled_weight(nodes, weights, Head(rest)) + total_weight(Tail(rest), nodes, weights)

\* The loop of weighted_round_robin from the i-th node on, with the weight
\* cumulated so far: the first node at which rand_val <= cumulative_weight,
\* and active_nodes[0] when the loop ends without one.
weighted_scan_first(nodes, weights, rand_val, i, cumulative_weight) == nodes[1]

RECURSIVE weighted_scan(_, _, _, _, _)
weighted_scan(nodes, weights, rand_val, i, cumulative_weight) ==
    IF i > Len(nodes) THEN nodes[1]
    ELSE IF rand_val <= cumulative_weight + scaled_weight(nodes, weights, nodes[i])
    THEN nodes[i]
    ELSE weighted_scan(nodes, weights, rand_val, i + 1,
                       cumulative_weight + scaled_weight(nodes, weights, nodes[i]))

\* The values random.uniform(0, total_weight) can return, as far as the loop
\* tells them apart: the sums are whole numbers on the common denominator, so
\* a draw between two whole numbers selects what the upper one selects.
weighted_draws(nodes, weights) == 0 .. total_weight(nodes, nodes, weights)

\* weighted_round_robin with a non-empty active list: the nodes it can
\* return; the round-robin index is left as it is.
weighted_round_robin(n) ==
    {[node |-> weighted_scan(active_nodes[n], node_weights[n], rand_val, 1, 0),
      index |-> round_robin_index[n]]
        : rand_val \in weighted_draws(active_nodes[n], node_weights[n])}

\* least_connections: random.choice among the active nodes with the fewest
\* connections.
least_connections_any(n) ==
    {[node |-> b, index |-> round_robin_index[n]] : b \in SeqToSet(active_nodes[n])}

least_connections(n) ==
    {[node |-> b, index |-> round_robin_index[n]]
        : b \in {c \in SeqToSet(active_nodes[n]) :
                    \A d \in SeqToSet(active_nodes[n]) :
                        node_connections[n][c] <= node_connections[n][d]}}

\* get_next_node() without an argument: client_id is None.
NoClientId == <<>>

\* hash_based: with a client_id (handle_client always sets it) the node at
\* the hash modulo the length of the list; without one, round_robin().
hash_based(n, cid) ==
    IF cid = NoClientId
    THEN round_robin(n)
    ELSE [node |-> active_nodes[n][(md5_low16(cid) % Len(active_nodes[n])) + 1],
          index |-> round_robin_index[n]]

\* get_next_node with a non-empty active list: whether it raises, and the
\* selections it can return together with the index it leaves.
get_next_node_raises(n) ==
    current_algorithm[n] = "round_robin" /\ round_robin_raises(n)

\* The same for a call that may come without a client_id.
get_next_node_raises_for(n, cid) ==
    /\ round_robin_raises(n)
    /\ \/ current_algorithm[n] = "round_robin"
       \/ current_algorithm[n] = "hash_based" /\ cid = NoClientId

get_next_node(n, cid) ==
    CASE current_algorithm[n] = "round_robin" -> {round_robin(n)}
      [] current_algorithm[n] = "weighted" -> weighted_round_robin(n)
      [] current_algorithm[n] = "least_connections" -> least_connections(n)
      [] current_algorithm[n] = "hash_based" -> {hash_based(n, cid)}

increment_connections(conn, b) == [conn EXCEPT ![b] = @ + 1]

decrement_connections_reset(conn, b) == [conn EXCEPT ![b] = 0]

decrement_connections(conn, b) ==
    IF conn[b] > 0 THEN [conn EXCEPT ![b] = @ - 1] ELSE conn

\* update_node_metrics, the response times: the list grows by one entry and
\* is cut to its last 10.
append_response_time_oldest(times, response_time) ==
    SubSeq(Append(times, response_time), 1,
           IF Len(times) + 1 > ResponseTimesKept THEN ResponseTimesKept ELSE Len(times) + 1)

append_response_time(times, response_time) ==
    LastN(Append(times, response_time), ResponseTimesKept)

\* update_node_metrics, the weight: 1.0 / avg_response_time when the average
\* of the list is above 0, and 0.9 of that after a request that failed.
failed_weight_zero(weight) == <<0, 1>>

failed_weight(weight) == Frac(9 * weight[1], 10 * weight[2])

\* 'self.node_weights[node] *= 0.9' raises KeyError for a node without an
\* entry: a failed request whose list holds only response times of 0.
update_node_metrics_raises(times, weight, response_time, success) ==
    /\ ~success
    /\ weight = NoWeight
    /\ Sum(append_response_time(times, response_time)) = 0

updated_weight(times, weight, success) ==
    LET averaged == IF Sum(times) > 0 THEN Frac(Len(times), Sum(times)) ELSE weight
    IN  IF success THEN averaged ELSE failed_weight(averaged)

\* update_node_metrics(node, response_time, success) on the balancer of n,
\* under the lock.
update_node_metrics(n, b, response_time, success) ==
    /\ node_response_times' = [node_response_times EXCEPT ![n][b] =
            append_response_time(@, response_time)]
    /\ node_weights' =
            IF update_node_metrics_raises(node_response_times[n][b], node_weights[n][b],
                                          response_time, success)
            THEN node_weights
            ELSE [node_weights EXCEPT ![n][b] =
                    updated_weight(node_response_times'[n][b], @, success)]

\* What a call of get_next_node gives its caller: a node, None, or an
\* exception.
Selected(b) == [status |-> "selected", node |-> b]

SelectedNone == [status |-> "selected_none"]

Raised == [status |-> "raised"]

\* The client ids get_next_node may be called with.
ClientIds == {NoClientId} \cup {client_id(peer) : peer \in ClientPorts}

\* LoadBalancer.lock of node n is free: no handler is inside get_next_node.
\* Every other method that takes the lock runs in one step.
lock_free(n) == \A f \in forwards : ~(f.node = n /\ f.stage = "selecting")

\* The response times update_node_metrics may be called with: 0 when the
\* clock has not moved between the two readings.
MetricTimes == 0 .. MaxMetricTime

\* load_balancer.update_node_metrics(node, response_time, success) of node n,
\* called on its own; a KeyError goes to the caller after the list has grown.
UpdateNodeMetrics(n, b, response_time, success) ==
    /\ load_balancer[n]
    /\ lock_free(n)
    /\ update_node_metrics(n, b, response_time, success)
    /\ response' =
            IF update_node_metrics_raises(node_response_times[n][b], node_weights[n][b],
                                          response_time, success)
            THEN Raised ELSE NoResponse
    /\ UNCHANGED <<is_primary, reachable, inventory, version_number, transaction_log,
                   last_heartbeat, backup_ports, now, repl_pending, repl_sent,
                   sync_pending, sync_sent, heartbeats,
                   load_balancer, current_algorithm, round_robin_index, active_nodes,
                   node_connections, forwards, tuning>>

\* load_balancer.get_next_node(client_id) of node n, called on its own.
GetNextNode(n, cid) ==
    /\ load_balancer[n]
    /\ lock_free(n)
    /\ IF active_nodes[n] = <<>>
       THEN /\ response' = SelectedNone
            /\ UNCHANGED round_robin_index
       ELSE IF get_next_node_raises_for(n, cid)
       THEN /\ response' = Raised
            /\ UNCHANGED round_robin_index
       ELSE \E sel \in get_next_node(n, cid) :
            /\ response' = Selected(sel.node)
            /\ round_robin_index' = [round_robin_index EXCEPT ![n] = sel.index]
    /\ UNCHANGED <<is_primary, reachable, inventory, version_number, transaction_log,
                   last_heartbeat, backup_ports, now, repl_pending, repl_sent,
                   sync_pending, sync_sent, heartbeats,
                   load_balancer, current_algorithm, active_nodes,
                   node_connections, node_response_times, node_weights, forwards, tuning>>

\* set_active_nodes, under the lock: the list is replaced, the index is left
\* as it is, and every node of the list that has no weight gets 1.0.
set_active_nodes(n, nodes) ==
    /\ lock_free(n)
    /\ active_nodes' = [active_nodes EXCEPT ![n] = nodes]
    /\ node_weights' = [node_weights EXCEPT ![n] =
            [b \in Ports |-> IF b \in SeqToSet(nodes) /\ @[b] = NoWeight
                             THEN DefaultWeight ELSE @[b]]]

\* A forward_read_request call of node n under way: the request it forwards
\* (from local port peer, the hops-th node the search of that client passes
\* through) and how far the call has got: 'sent' (connected, request sent),
\* 'relayed' (the target has forwarded the request itself and waits), 'replied'
\* (the target's answer, reply, is on the socket), 'timed_out' (inside
\* 'except socket.timeout', before the 'finally'); and, before the call, the
\* handler that is inside get_next_node: 'selecting'.
forward_call(n, target, peer, product, hops, client) ==
    [node |-> n, target |-> target, peer |-> peer, product |-> product,
     stage |-> "sent", reply |-> NoResponse, hops |-> hops, client |-> client]

\* get_next_node returning sel, and increment_connections in
\* forward_read_request.
selected(n, sel) ==
    /\ Len(node_response_times[n][sel.node]) < MaxSamples
    /\ round_robin_index' = [round_robin_index EXCEPT ![n] = sel.index]
    /\ node_connections' = [node_connections EXCEPT ![n] =
            increment_connections(@, sel.node)]

\* handle_load_balanced_read up to the connect of forward_read_request: the
\* selection and increment_connections.  With no active node the primary
\* answers itself; an exception of get_next_node ends in handle_client.
handle_load_balanced_read(n, peer, product) ==
    /\ lock_free(n)
    /\ IF active_nodes[n] = <<>>
       THEN /\ response' = search_product(n, product)
            /\ UNCHANGED lbvars
       ELSE IF get_next_node_raises(n)
       THEN /\ response' = Dropped
            /\ UNCHANGED lbvars
       ELSE \E sel \in get_next_node(n, client_id(peer)) :
            /\ selected(n, sel)
            /\ forwards' = forwards \cup
                    {forward_call(n, sel.node, peer, product, 1, peer)}
            /\ response' = NoResponse
            /\ UNCHANGED <<load_balancer, current_algorithm, active_nodes,
                           node_response_times, node_weights, tuning>>

\* A client's search request received by node n from local port peer.
ClientSearch(n, peer, product) ==
    /\ reachable[n]
    /\ \A f \in forwards : f.client # peer
    /\ IF is_primary[n] /\ load_balancer[n]
       THEN handle_load_balanced_read(n, peer, product)
       ELSE /\ response' = search_product(n, product)
            /\ UNCHANGED lbvars
    /\ UNCHANGED <<is_primary, reachable, inventory, version_number, transaction_log,
                   last_heartbeat, backup_ports, now, repl_pending, repl_sent,
                   sync_pending, sync_sent, heartbeats>>

\* process_request on the node a search was forwarded to: a primary with a
\* load balancer hands it to handle_load_balanced_read, which forwards it
\* again when it has an active node.
target_relays(f) ==
    is_primary[f.target] /\ load_balancer[f.target] /\ active_nodes[f.target] # <<>>

\* The local port of the socket forward_read_request opens for the call f
\* relays: one the operating system picks, here the next one above.
RelayOffset == 10000

relay_peer(f) == f.peer + RelayOffset

\* The target of f forwards the request it received: handle_load_balanced_read
\* on the target, with the forwarding node as its client.
ForwardRelay(f) ==
    /\ f \in forwards
    /\ f.stage = "sent"
    /\ reachable[f.node] /\ reachable[f.target]
    /\ target_relays(f)
    /\ ~get_next_node_raises(f.target)
    /\ lock_free(f.target)
    /\ f.hops < MaxHops
    /\ \E sel \in get_next_node(f.target, client_id(relay_peer(f))) :
            /\ selected(f.target, sel)
            /\ forwards' = (forwards \ {f}) \cup
                    {[f EXCEPT !.stage = "relayed"],
                     forward_call(f.target, sel.node, relay_peer(f), f.product,
                                  f.hops + 1, f.client)}
    /\ response' = NoResponse
    /\ UNCHANGED <<is_primary, reachable, inventory, version_number, transaction_log,
                   last_heartbeat, backup_ports, now, repl_pending, repl_sent,
                   sync_pending, sync_sent, heartbeats,
                   load_balancer, current_algorithm, active_nodes,
                   node_response_times, node_weights, tuning>>

\* What the target of f sends back: its own search, or the answer of the call
\* it relayed the request with.
forward_reply(f) ==
    IF f.stage = "replied" THEN f.reply ELSE search_product(f.target, f.product)

\* The call whose target is waiting for the answer of f.
relayed_by(f) ==
    {g \in forwards : /\ g.stage = "relayed"
                      /\ g.client = f.client
                      /\ g.hops + 1 = f.hops}

\* The three ways forward_read_request ends.  The backup answered:
forward_answered(f) ==
    /\ response' = ("load_balanced" :> TRUE) @@
            [forward_reply(f) EXCEPT !.served_by = f.target]
    /\ \E response_time \in Latencies :
            update_node_metrics(f.node, f.target, response_time,
                                forward_reply(f).status = "success")
    /\ UNCHANGED active_nodes

\* The answer of the 'except socket.timeout' branch.
timeout_response(f) ==
    ("load_balanced" :> FALSE) @@ ("fallback_reason" :> "backup_timeout")
        @@ search_product(f.node, f.product)

\* 'except socket.timeout': the node is taken off the active list.
forward_timed_out(f) ==
    /\ response' = timeout_response(f)
    /\ active_nodes' = [active_nodes EXCEPT ![f.node] =
            SelectSeq(@, LAMBDA b : b # f.target)]
    /\ UNCHANGED <<node_response_times, node_weights>>

\* 'except Exception' (connection refused, reset, ...): the metrics are updated.
forward_failed(f) ==
    /\ response' = ("load_balanced" :> FALSE) @@ ("fallback_reason" :> "refused")
            @@ search_product(f.node, f.product)
    /\ \E response_time \in Latencies :
            update_node_metrics(f.node, f.target, response_time,
                                FALSE)
    /\ UNCHANGED active_nodes

\* forward_read_request from the connect on, with its 'finally'.  A backup
\* that cannot be reached either refuses the connection or lets it time out;
\* a target that relays the request answers when its own call has returned,
\* and the recv of f times out if that takes more than 2 seconds; a target
\* whose selection raises closes the socket without an answer.  The answer
\* of a relayed request goes to the call that is waiting for it.
ForwardReturn(f) ==
    /\ f \in forwards
    /\ f.stage \in {"sent", "relayed", "replied"}
    /\ lock_free(f.node)
    /\ CASE f.stage = "replied" -> forward_answered(f)
         [] f.stage = "relayed" -> forward_timed_out(f)
         [] f.stage = "sent" ->
                IF reachable[f.node] /\ reachable[f.target]
                THEN IF target_relays(f)
                     THEN get_next_node_raises(f.target) /\ forward_failed(f)
                     ELSE forward_answered(f)
                ELSE forward_timed_out(f) \/ forward_failed(f)
    /\ forwards' = {IF g \in relayed_by(f)
                    THEN [g EXCEPT !.stage = "replied", !.reply = response']
                    ELSE g : g \in forwards \ {f}}
    /\ node_connections' = [node_connections EXCEPT ![f.node] =
            decrement_connections(@, f.target)]
    /\ UNCHANGED <<is_primary, reachable, inventory, version_number, transaction_log,
                   last_heartbeat, backup_ports, now, repl_pending, repl_sent,
                   sync_pending, sync_sent, heartbeats,
                   load_balancer, current_algorithm, round_robin_index, tuning>>

\* A search handled statement by statement.  get_next_node under round_robin,
\* entered: the lock is taken and round_robin has read
\* node = active_nodes[round_robin_index].
SelectBegin(n, peer, product) ==
    /\ reachable[n]
    /\ is_primary[n] /\ load_balancer[n]
    /\ \A f \in forwards : f.client # peer
    /\ lock_free(n)
    /\ active_nodes[n] # <<>>
    /\ current_algorithm[n] = "round_robin"
    /\ ~round_robin_raises(n)
    /\ Len(node_response_times[n][round_robin(n).node]) < MaxSamples
    /\ forwards' = forwards \cup
            {[forward_call(n, round_robin(n).node, peer, product, 1, peer)
                EXCEPT !.stage = "selecting"]}
    /\ response' = NoResponse
    /\ UNCHANGED <<is_primary, reachable, inventory, version_number, transaction_log,
                   last_heartbeat, backup_ports, now, repl_pending, repl_sent,
                   sync_pending, sync_sent, heartbeats,
                   load_balancer, current_algorithm, round_robin_index, active_nodes,
                   node_connections, node_response_times, node_weights, tuning>>

\* round_robin's second statement, the index modulo the length the list has
\* now (ZeroDivisionError on an empty list: the handler ends in handle_client),
\* the release of the lock, and forward_read_request up to the send.
SelectEnd(f) ==
    /\ f \in forwards
    /\ f.stage = "selecting"
    /\ IF active_nodes[f.node] = <<>>
       THEN /\ forwards' = forwards \ {f}
            /\ response' = Dropped
            /\ UNCHANGED <<round_robin_index, node_connections>>
       ELSE /\ round_robin_index' = [round_robin_index EXCEPT ![f.node] =
                    (@ + 1) % Len(active_nodes[f.node])]
            /\ node_connections' = [node_connections EXCEPT ![f.node] =
                    increment_connections(@, f.target)]
            /\ forwards' = (forwards \ {f}) \cup {[f EXCEPT !.stage = "sent"]}
            /\ response' = NoResponse
    /\ UNCHANGED <<is_primary, reachable, inventory, version_number, transaction_log,
                   last_heartbeat, backup_ports, now, repl_pending, repl_sent,
                   sync_pending, sync_sent, heartbeats,
                   load_balancer, current_algorithm, active_nodes,
                   node_response_times, node_weights, tuning>>

\* forward_read_request, 'except socket.timeout' up to its return: the node is
\* removed from load_balancer.active_nodes; the lock is not taken.
ForwardTimeout(f) ==
    /\ f \in forwards
    /\ f.stage = "sent"
    /\ ~(reachable[f.node] /\ reachable[f.target])
    /\ active_nodes' = [active_nodes EXCEPT ![f.node] =
            SelectSeq(@, LAMBDA b : b # f.target)]
    /\ forwards' = (forwards \ {f}) \cup {[f EXCEPT !.stage = "timed_out"]}
    /\ response' = NoResponse
    /\ UNCHANGED <<is_primary, reachable, inventory, version_number, transaction_log,
                   last_heartbeat, backup_ports, now, repl_pending, repl_sent,
                   sync_pending, sync_sent, heartbeats,
                   load_balancer, current_algorithm, round_robin_index,
                   node_connections, node_response_times, node_weights, tuning>>

\* The 'finally' of a call that timed out, decrement_connections under the
\* lock, and the answer to the client.
ForwardFinally(f) ==
    /\ f \in forwards
    /\ f.stage = "timed_out"
    /\ lock_free(f.node)
    /\ node_connections' = [node_connections EXCEPT ![f.node] =
            decrement_connections(@, f.target)]
    /\ forwards' = forwards \ {f}
    /\ response' = timeout_response(f)
    /\ UNCHANGED <<is_primary, reachable, inventory, version_number, transaction_log,
                   last_heartbeat, backup_ports, now, repl_pending, repl_sent,
                   sync_pending, sync_sent, heartbeats,
                   load_balancer, current_algorithm, round_robin_index, active_nodes,
                   node_response_times, node_weights, tuning>>

\* configure_load_balancer with set_algorithm.
configure_load_balancer(n, algorithm) ==
    IF ~is_primary[n] \/ ~load_balancer[n]
    THEN /\ response' = [status |-> "error", message |-> "Load balancer not available"]
         /\ UNCHANGED current_algorithm
    ELSE IF algorithm \in Algorithms
    THEN /\ current_algorithm' = [current_algorithm EXCEPT ![n] = algorithm]
         /\ response' = [status |-> "success", message |-> "Load balancing algorithm set",
                         algorithm |-> algorithm]
    ELSE /\ response' = [status |-> "error", message |-> "Invalid algorithm"]
         /\ UNCHANGED current_algorithm

\* A client's load_balancer_config request received by node n.
ClientConfigure(n, algorithm) ==
    /\ reachable[n]
    /\ configure_load_balancer(n, algorithm)
    /\ UNCHANGED <<is_primary, reachable, inventory, version_number, transaction_log,
                   last_heartbeat, backup_ports, now, repl_pending, repl_sent,
                   sync_pending, sync_sent, heartbeats,
                   load_balancer, round_robin_index, active_nodes,
                   node_connections, node_response_times, node_weights, forwards, tuning>>

\* get_stats of the balancer of n, under the lock: the algorithm, the active
\* list, the weights and connection counts that have an entry, and the last 5
\* response times of every node that has a list.
get_stats(n) ==
    [algorithm |-> current_algorithm[n],
     active_nodes |-> active_nodes[n],
     node_weights |-> {<<b, node_weights[n][b]>>
                        : b \in {c \in Ports : node_weights[n][c] # NoWeight}},
     node_connections |-> node_connections[n],
     node_response_times |-> {<<b, LastN(node_response_times[n][b], StatsWindow)>>
                        : b \in {c \in Ports : node_response_times[n][c] # <<>>}}]

\* get_load_balancer_stats.
get_load_balancer_stats_any_role(n) ==
    ("status" :> "success") @@ get_stats(n)

get_load_balancer_stats(n) ==
    IF ~is_primary[n] \/ ~load_balancer[n]
    THEN [status |-> "error", message |-> "Load balancer not available"]
    ELSE ("status" :> "success") @@ get_stats(n)

\* A client's load_balancer_stats request received by node n.
ClientStats(n) ==
    /\ reachable[n]
    /\ lock_free(n)
    /\ response' = get_load_balancer_stats(n)
    /\ UNCHANGED <<is_primary, reachable, inventory, version_number, transaction_log,
                   last_heartbeat, backup_ports, now, repl_pending, repl_sent,
                   sync_pending, sync_sent, heartbeats>>
    /\ UNCHANGED lbvars

\* The backups of p that accept a connection, in the order of backup_ports.
responsive_backups(p) == SelectSeq(backup_ports[p], LAMBDA b : reachable[b])

\* backup_monitor, a whole cycle in which no backup is behind (a cycle that
\* finds one waits inside sync_backup: MonitorProbe): the backups that answer
\* get_status become the active nodes.
backup_monitor(p) ==
    /\ is_primary[p] /\ reachable[p]
    /\ \A b \in SeqToSet(responsive_backups(p)) : version_number[b] >= version_number[p]
    /\ IF load_balancer[p]
       THEN set_active_nodes(p, responsive_backups(p))
       ELSE UNCHANGED <<active_nodes, node_weights>>
    /\ response' = NoResponse
    /\ UNCHANGED <<is_primary, reachable, inventory, version_number, transaction_log,
                   last_heartbeat, backup_ports, now, repl_pending, repl_sent,
                   sync_pending, sync_sent, heartbeats,
                   load_balancer, current_algorithm, round_robin_index,
                   node_connections, node_response_times, forwards, tuning>>

\* The backups of p whose connect and send succeed: those that answer, and
\* those in listening whose socket completes the handshake although the node
\* answers nothing (a connect to a node that is gone fails).
connected_backups(p, listening) ==
    SelectSeq(backup_ports[p], LAMBDA b : reachable[b] \/ b \in listening)

\* heartbeat_sender, a whole round: a heartbeat to every backup that accepts
\* the connection (the receiver writes nothing for it: process_heartbeat, and
\* the sender reads no answer), then set_active_nodes with those backups.
heartbeat_sender(p) ==
    /\ is_primary[p] /\ reachable[p]
    /\ \A b \in SeqToSet(responsive_backups(p)) : process_heartbeat(b)
    /\ \E listening \in SUBSET {b \in SeqToSet(backup_ports[p]) : ~reachable[b]} :
          IF load_balancer[p]
          THEN set_active_nodes(p, connected_backups(p, listening))
          ELSE /\ listening = {}
               /\ UNCHANGED <<active_nodes, node_weights>>
    /\ response' = NoResponse
    /\ UNCHANGED <<is_primary, reachable, backup_ports, now, repl_pending, repl_sent,
                   sync_pending, sync_sent, heartbeats,
                   load_balancer, current_algorithm, round_robin_index,
                   node_connections, node_response_times, forwards, tuning>>

\* get_stats()['node_response_times']: the nodes that have an entry, with the
\* length of the last 5 of it.
stats_lengths(p) ==
    {Len(LastN(node_response_times[p][b], StatsWindow))
        : b \in {c \in Ports : node_response_times[p][c] # <<>>}}

\* load_balancer_monitor, one pass: with more than one active node and lists of
\* different lengths, round_robin is replaced by weighted.
load_balancer_monitor(p) ==
    /\ is_primary[p] /\ load_balancer[p]
    /\ lock_free(p)
    /\ IF /\ Len(active_nodes[p]) > 1
          /\ Cardinality(stats_lengths(p)) > 1
          /\ current_algorithm[p] = "round_robin"
       THEN current_algorithm' = [current_algorithm EXCEPT ![p] = "weighted"]
       ELSE UNCHANGED current_algorithm
    /\ response' = NoResponse
    /\ UNCHANGED <<is_primary, reachable, inventory, version_number, transaction_log,
                   last_heartbeat, backup_ports, now, repl_pending, repl_sent,
                   sync_pending, sync_sent, heartbeats,
                   load_balancer, round_robin_index, active_nodes,
                   node_connections, node_response_times, node_weights, forwards, tuning>>

\* load_balancer_monitor statement by statement.  get_stats under the lock
\* and the three tests on what it returned, in a pass that finds them true:
\* the call of set_algorithm is still to come.
TuneRead(p) ==
    /\ is_primary[p] /\ load_balancer[p]
    /\ lock_free(p)
    /\ p \notin tuning
    /\ Len(active_nodes[p]) > 1
    /\ Cardinality(stats_lengths(p)) > 1
    /\ current_algorithm[p] = "round_robin"
    /\ tuning' = tuning \cup {p}
    /\ response' = NoResponse
    /\ UNCHANGED <<is_primary, reachable, inventory, version_number, transaction_log,
                   last_heartbeat, backup_ports, now, repl_pending, repl_sent,
                   sync_pending, sync_sent, heartbeats,
                   load_balancer, current_algorithm, round_robin_index, active_nodes,
                   node_connections, node_response_times, node_weights, forwards>>

\* set_algorithm('weighted') of that pass; the lock is not taken.
TuneSet(p) ==
    /\ p \in tuning
    /\ tuning' = tuning \ {p}
    /\ current_algorithm' = [current_algorithm EXCEPT ![p] = "weighted"]
    /\ response' = NoResponse
    /\ UNCHANGED <<is_primary, reachable, inventory, version_number, transaction_log,
                   last_heartbeat, backup_ports, now, repl_pending, repl_sent,
                   sync_pending, sync_sent, heartbeats,
                   load_balancer, round_robin_index, active_nodes,
                   node_connections, node_response_times, node_weights, forwards>>

(* ---------------------------- environment ----------------------------- *)

Tick ==
    /\ now + ClockStep <= MaxTime
    /\ now' = now + ClockStep
    /\ UNCHANGED <<is_primary, reachable, inventory, version_number, transaction_log,
                   last_heartbeat, backup_ports, repl_pending, repl_sent,
                   sync_pending, sync_sent, heartbeats>>
    /\ response' = NoResponse
    /\ UNCHANGED lbvars

\* A node drops off the network (process stopped or link cut) or comes back.
Partition(n) ==
    /\ reachable[n]
    /\ Cardinality({m \in Ports : ~reachable[m]}) < MaxDown
    /\ reachable' = [reachable EXCEPT ![n] = FALSE]
    /\ UNCHANGED <<is_primary, inventory, version_number, transaction_log,
                   last_heartbeat, backup_ports, now, repl_pending, repl_sent,
                   sync_pending, sync_sent, heartbeats>>
    /\ response' = NoResponse
    /\ UNCHANGED lbvars

Heal(n) ==
    /\ ~reachable[n]
    /\ reachable' = [reachable EXCEPT ![n] = TRUE]
    /\ UNCHANGED <<is_primary, inventory, version_number, transaction_log,
                   last_heartbeat, backup_ports, now, repl_pending, repl_sent,
                   sync_pending, sync_sent, heartbeats>>
    /\ response' = NoResponse
    /\ UNCHANGED lbvars

\* What bounds a run: no node commits more than c writes, no log grows
\* beyond c entries.
WritesBelow(c) == \A n \in Ports : version_number[n] <= c

LogsBelow(c) == \A n \in Ports : Len(transaction_log[n]) <= c

\* The write path, replication and resynchronisation; the clock stands still.
Next ==
    \/ \E n \in Ports, k \in Keys, q \in Quantities :
            ClientBuy(n, k, q) /\ WritesBelow(MaxVersion)'
    \/ \E n \in Ports, k \in Keys, q \in AddQuantities :
            ClientAddStock(n, k, q) /\ WritesBelow(MaxVersion)'
    \/ \E t \in repl_pending : ReplSend(t)
    \/ \E m \in repl_sent : ReplDeliver(m) /\ LogsBelow(MaxLogLen)'
    \/ \E p \in Ports, b \in Ports : MonitorProbe(p, b)
    \/ \E s \in sync_pending : SyncSend(s)
    \/ \E m \in sync_sent : SyncDeliver(m) /\ LogsBelow(MaxLogLen)'
    \/ \E n \in Ports : Partition(n)
    \/ \E n \in Ports : Heal(n)

Spec == Init /\ [][Next]_vars

\* The same with the clock, the heartbeats and the failover, each node
\* committing at most MaxFailoverVersion writes.
FewWrites == WritesBelow(MaxFailoverVersion)

NextFailover ==
    \/ \E n \in Ports, k \in Keys, q \in Quantities : ClientBuy(n, k, q) /\ FewWrites'
    \/ \E n \in Ports, k \in Keys, q \in AddQuantities : ClientAddStock(n, k, q) /\ FewWrites'
    \/ \E t \in repl_pending : ReplSend(t)
    \/ \E m \in repl_sent : ReplDeliver(m) /\ LogsBelow(MaxLogLen)'
    \/ \E p \in Ports, b \in Ports : MonitorProbe(p, b)
    \/ \E s \in sync_pending : SyncSend(s)
    \/ \E m \in sync_sent : SyncDeliver(m) /\ LogsBelow(MaxLogLen)'
    \/ \E n \in Ports : Partition(n)
    \/ \E n \in Ports : Heal(n)
    \/ \E p \in Ports, b \in Ports : HeartbeatSend(p, b)
    \/ \E p \in Ports, b \in Ports : HeartbeatDeliver(p, b)
    \/ \E n \in Ports : heartbeat_monitor(n)
    \/ Tick

SpecFailover == Init /\ [][NextFailover]_vars

\* The read path: searches through the load balancer of the primary, its
\* configuration and the loops that maintain its active nodes; no write is
\* made, so no replication or resynchronisation is under way.
NextLB ==
    \/ \E n \in Ports, peer \in ClientPorts, product \in SearchProducts :
            ClientSearch(n, peer, product)
    \/ \E f \in forwards : ForwardReturn(f)
    \/ \E n \in Ports, algorithm \in ConfigNames : ClientConfigure(n, algorithm)
    \/ \E p \in Ports : backup_monitor(p)
    \/ \E p \in Ports : heartbeat_sender(p)
    \/ \E p \in Ports : load_balancer_monitor(p)
    \/ \E n \in Ports : Partition(n)
    \/ \E n \in Ports : Heal(n)

SpecLB == Init /\ [][NextLB]_vars

\* A deployment that has been running: LogBase add_stock requests of one unit
\* of the test product were committed by the primary and replicated, in order,
\* to both backups; nothing is in flight.
long_run_log ==
    [i \in 1 .. LogBase |->
        [type |-> "add_stock", key |-> TestProduct, quantity |-> 1, version |-> i]]

InitLongRun ==
    /\ is_primary = [n \in Ports |-> n = PrimaryPort]
    /\ reachable = [n \in Ports |-> TRUE]
    /\ inventory = [n \in Ports |-> (TestProduct :> LogBase) @@ load_initial_data]
    /\ version_number = [n \in Ports |-> LogBase]
    /\ transaction_log = [n \in Ports |-> long_run_log]
    /\ last_heartbeat = [n \in Ports |-> 0]
    /\ backup_ports = [n \in Ports |-> IF n = PrimaryPort THEN BackupPortList ELSE <<>>]
    /\ now = 0
    /\ repl_pending = {}
    /\ repl_sent = {}
    /\ sync_pending = {}
    /\ sync_sent = {}
    /\ heartbeats = {}
    /\ response = NoResponse
    /\ load_balancer = [n \in Ports |-> n = PrimaryPort]
    /\ current_algorithm = [n \in Ports |-> "round_robin"]
    /\ round_robin_index = [n \in Ports |-> 0]
    /\ active_nodes = [n \in Ports |-> <<>>]
    /\ node_connections = [n \in Ports |-> [b \in Ports |-> 0]]
    /\ node_response_times = [n \in Ports |-> [b \in Ports |-> <<>>]]
    /\ node_weights = [n \in Ports |-> [b \in Ports |-> NoWeight]]
    /\ forwards = {}
    /\ tuning = {}

\* The write path of a deployment that has been running: MaxVersion more
\* writes, their replication and the resynchronisation of a backup behind.
NextLog ==
    \/ \E n \in Ports, k \in Keys, q \in Quantities :
            ClientBuy(n, k, q) /\ WritesBelow(LogBase + MaxVersion)'
    \/ \E n \in Ports, k \in Keys, q \in AddQuantities :
            ClientAddStock(n, k, q) /\ WritesBelow(LogBase + MaxVersion)'
    \/ \E t \in repl_pending : ReplSend(t)
    \/ \E m \in repl_sent : ReplDeliver(m)
    \/ \E p \in Ports, b \in Ports : MonitorProbe(p, b)
    \/ \E s \in sync_pending : SyncSend(s)
    \/ \E m \in sync_sent : SyncDeliver(m)

SpecLog == InitLongRun /\ [][NextLog]_vars

\* The long-run write path under fair scheduling: every started send_to_backup
\* thread runs, every message on the wire is received, and the backup monitor
\* of the primary keeps probing each of its backups (its loop never ends and
\* every wait in it has a timeout).
FairConverge ==
    /\ WF_vars(\E t \in repl_pending : ReplSend(t))
    /\ WF_vars(\E m \in repl_sent : ReplDeliver(m))
    /\ \A b \in Ports : WF_vars(MonitorProbe(PrimaryPort, b))
    /\ WF_vars(\E s \in sync_pending : SyncSend(s))
    /\ WF_vars(\E m \in sync_sent : SyncDeliver(m))

SpecConverge == InitLongRun /\ [][NextLog]_vars /\ FairConverge

\* The read path with promotions: the clock, the heartbeat monitors of the
\* backups, the backup monitor of every primary, and the searches of one
\* client, which a node that has a load balancer forwards.
HopClients == {50001}

NextHops ==
    \/ Tick
    \/ \E n \in Ports : heartbeat_monitor(n)
    \/ \E n \in Ports, peer \in HopClients, product \in SearchProducts :
            ClientSearch(n, peer, product)
    \/ \E f \in forwards : ForwardRelay(f)
    \/ \E f \in forwards : ForwardReturn(f)
    \/ \E p \in Ports : backup_monitor(p)

SpecHops == Init /\ [][NextHops]_vars

\* The read path with the threads of a primary interleaved statement by
\* statement where the load balancer's lock matters: a selection in two
\* steps, a timed-out forward in two steps, and the methods that take the
\* lock, or do not, in one step each.
NextLock ==
    \/ \E n \in Ports, peer \in ClientPorts, product \in SearchProducts :
            SelectBegin(n, peer, product)
    \/ \E f \in forwards : SelectEnd(f)
    \/ \E f \in forwards : ForwardReturn(f)
    \/ \E f \in forwards : ForwardTimeout(f)
    \/ \E f \in forwards : ForwardFinally(f)
    \/ \E n \in Ports, algorithm \in ConfigNames : ClientConfigure(n, algorithm)
    \/ \E p \in Ports : backup_monitor(p)
    \/ \E n \in Ports : Partition(n)
    \/ \E n \in Ports : Heal(n)

SpecLock == Init /\ [][NextLock]_vars

\* Quantities no well-formed request carries.
MalformedQuantities == {-1, 0}

\* The buy requests a client may send: any quantity, or none.
BuyRequests ==
    {<<k, q>> : k \in Keys, q \in Quantities \cup MalformedQuantities}
        \cup {<<k>> : k \in Keys}

\* The write path fed with well-formed and malformed requests.
NextMalformed ==
    \/ \E n \in Ports, request \in BuyRequests :
            ClientBuyRequest(n, request) /\ WritesBelow(MaxVersion)'
    \/ \E n \in Ports, k \in Keys, q \in AddQuantities \cup MalformedQuantities :
            ClientAddStock(n, k, q) /\ WritesBelow(MaxVersion)'
    \/ \E t \in repl_pending : ReplSend(t)
    \/ \E m \in repl_sent : ReplDeliver(m) /\ LogsBelow(MaxLogLen)'

SpecMalformed == Init /\ [][NextMalformed]_vars

\* The weights a balancer may hold for a node: none, the initial 1.0, and
\* weights below and above it.
WeightInputs == {NoWeight, DefaultWeight, <<1, 2>>, <<9, 10>>, <<2, 1>>}

\* The active lists a primary with the backups 8001 and 8002 may hold.
ActiveLists == {<<8001>>, <<8002>>, <<8001, 8002>>, <<8002, 8001>>}

\* A primary whose balancer runs weighted_round_robin, with any of the
\* active lists and any of the weights.
InitWeighted ==
    /\ is_primary = [n \in Ports |-> n = PrimaryPort]
    /\ reachable = [n \in Ports |-> TRUE]
    /\ inventory = [n \in Ports |-> load_initial_data]
    /\ version_number = [n \in Ports |-> 0]
    /\ transaction_log = [n \in Ports |-> <<>>]
    /\ last_heartbeat = [n \in Ports |-> 0]
    /\ backup_ports = [n \in Ports |-> IF n = PrimaryPort THEN BackupPortList ELSE <<>>]
    /\ now = 0
    /\ repl_pending = {}
    /\ repl_sent = {}
    /\ sync_pending = {}
    /\ sync_sent = {}
    /\ heartbeats = {}
    /\ response = NoResponse
    /\ load_balancer = [n \in Ports |-> n = PrimaryPort]
    /\ current_algorithm = [n \in Ports |->
            IF n = PrimaryPort THEN "weighted" ELSE "round_robin"]
    /\ round_robin_index = [n \in Ports |-> 0]
    /\ \E nodes \in ActiveLists :
            active_nodes = [n \in Ports |-> IF n = PrimaryPort THEN nodes ELSE <<>>]
    /\ node_connections = [n \in Ports |-> [b \in Ports |-> 0]]
    /\ node_response_times = [n \in Ports |-> [b \in Ports |-> <<>>]]
    /\ \E w1, w2 \in WeightInputs :
            node_weights = [n \in Ports |-> [b \in Ports |->
                IF n = PrimaryPort /\ b = 8001 THEN w1
                ELSE IF n = PrimaryPort /\ b = 8002 THEN w2
                ELSE NoWeight]]
    /\ forwards = {}
    /\ tuning = {}

\* Searches selected by weight, and their return.
NextWeighted ==
    \/ \E peer \in ClientPorts, product \in SearchProducts :
            ClientSearch(PrimaryPort, peer, product)
    \/ \E f \in forwards : ForwardReturn(f)

SpecWeighted == InitWeighted /\ [][NextWeighted]_vars

\* The balancer of the primary called for selections, with and without a
\* client id, while its algorithm is set and its active list changes.
NextSelect ==
    \/ \E cid \in ClientIds : GetNextNode(PrimaryPort, cid)
    \/ \E algorithm \in ConfigNames : ClientConfigure(PrimaryPort, algorithm)
    \/ \E p \in Ports : backup_monitor(p)
    \/ \E n \in Ports : Partition(n)
    \/ \E n \in Ports : Heal(n)

SpecSelect == Init /\ [][NextSelect]_vars

\* Configuration and statistics requests to every node, searches that fill
\* the response times, the auto-tuning pass statement by statement, and the
\* promotion of backups.
NextConfig ==
    \/ Tick
    \/ \E n \in Ports : heartbeat_monitor(n)
    \/ \E n \in Ports, algorithm \in ConfigNames : ClientConfigure(n, algorithm)
    \/ \E n \in Ports : ClientStats(n)
    \/ \E peer \in HopClients, product \in SearchProducts :
            ClientSearch(PrimaryPort, peer, product)
    \/ \E f \in forwards : ForwardReturn(f)
    \/ \E p \in Ports : backup_monitor(p)
    \/ \E p \in Ports : TuneRead(p)
    \/ \E p \in Ports : TuneSet(p)

SpecConfig == Init /\ [][NextConfig]_vars

\* No weight has a denominator above c.
WeightsWithin(c) ==
    \A n, b \in Ports : node_weights[n][b] = NoWeight \/ node_weights[n][b][2] <= c

\* The node whose metrics are fed directly.
MetricNodes == {8001}

\* The balancer of the primary fed with response times of one backup, while
\* its active list changes and selections are made.
NextMetrics ==
    \/ \E b \in MetricNodes, response_time \in MetricTimes, success \in BOOLEAN :
            /\ UpdateNodeMetrics(PrimaryPort, b, response_time, success)
            /\ WeightsWithin(MaxDenominator)'
    \/ \E p \in Ports : backup_monitor(p)
    \/ \E n \in Ports : Partition(n)
    \/ \E n \in Ports : Heal(n)

SpecMetrics == Init /\ [][NextMetrics]_vars

(* ------------------------------ claims -------------------------------- *)

\* C1: on every node every inventory quantity is >= 0 in every reachable
\* state, and a buy asking for more than the stock leaves the inventory as
\* it was.
C1_NonNegativeStock ==
    /\ [](\A n \in Ports : \A k \in DOMAIN inventory[n] : inventory[n][k] >= 0)
    /\ [][\A n \in Ports, k \in Keys, q \in Quantities :
            (/\ ClientBuy(n, k, q)
             /\ is_primary[n]
             /\ k \in DOMAIN inventory[n]
             /\ inventory[n][k] < q) => inventory' = inventory]_vars

\* A buy of one unit is refused on a primary whose stock is down to 0.
C1_Witness ==
    /\ response = [status |-> "error", message |-> "Insufficient quantity"]
    /\ TestProduct \in DOMAIN inventory[PrimaryPort]
    /\ inventory[PrimaryPort][TestProduct] = 0

\* C2: every successful buy or add_stock raises the version of the node that
\* applies it by exactly 1; the version in the response and the version in
\* the transaction appended to the log are the version after the commit.
C2_VersionStepsByOne ==
    [][response'.status = "success" =>
        LET n == response'.processed_by
            log == transaction_log'[n]
        IN /\ version_number'[n] = version_number[n] + 1
           /\ response'.version = version_number'[n]
           /\ log = Append(transaction_log[n], log[Len(log)])
           /\ log[Len(log)].version = version_number'[n]]_vars

\* A second write has been committed and answered with version 2.
C2_Witness ==
    /\ response.status = "success"
    /\ response.version = 2
    /\ version_number[response.processed_by] = 2

\* C3: a buy that fails on a primary (more than the stock asked for, or the
\* product not present) answers status=error, leaves inventory, version and
\* log of every node as they were and starts no replication.
C3_FailedBuyWritesNothing ==
    [][\A n \in Ports, k \in Keys, q \in Quantities :
        (/\ ClientBuy(n, k, q)
         /\ is_primary[n]
         /\ (k \notin DOMAIN inventory[n] \/ inventory[n][k] < q))
        => /\ response'.status = "error"
           /\ inventory' = inventory
           /\ version_number' = version_number
           /\ transaction_log' = transaction_log
           /\ repl_pending' = repl_pending
           /\ repl_sent' = repl_sent]_vars

\* The scenario's second request: 2 units asked of a stock of 1 at version 1.
C3_Witness ==
    /\ response = [status |-> "error", message |-> "Insufficient quantity"]
    /\ version_number[PrimaryPort] = 1
    /\ TestProduct \in DOMAIN inventory[PrimaryPort]
    /\ inventory[PrimaryPort][TestProduct] = 1
    /\ Len(transaction_log[PrimaryPort]) = 1
    /\ repl_pending = {} /\ repl_sent = {}

C5_BackupVersionNeverDecreases ==
    [][\A n \in Ports :
        ~is_primary[n] => version_number'[n] >= version_number[n]]_vars

\* The inventory a log describes: its transactions applied in order to the
\* initial data.
ApplyTransaction(inv, t) ==
    IF t.type = "buy"
    THEN [inv EXCEPT ![t.key] = @ - t.quantity]
    ELSE IF t.key \in DOMAIN inv
         THEN [inv EXCEPT ![t.key] = @ + t.quantity]
         ELSE (t.key :> t.quantity) @@ inv

RECURSIVE Replay(_)
Replay(log) ==
    IF log = <<>>
    THEN load_initial_data
    ELSE ApplyTransaction(Replay(SubSeq(log, 1, Len(log) - 1)), log[Len(log)])

\* C9: when the sync_request of a health-monitor cycle of the node started as
\* primary is delivered to a backup, and no replicate message to that backup
\* is under way, the backup holds the inventory and the version the primary
\* had at the version the cycle saw, or at a later one.
C9_ResyncInstallsPrimaryState ==
    [][\A m \in sync_sent :
        (/\ SyncDeliver(m)
         /\ m.src = PrimaryPort
         /\ ~is_primary[m.dst]
         /\ \A t \in repl_pending \cup repl_sent : t.dst # m.dst)
        => \E v \in m.version .. version_number'[PrimaryPort] :
              /\ version_number'[m.dst] = v
              /\ inventory'[m.dst] = Replay(SubSeq(transaction_log'[PrimaryPort], 1, v))]_vars

\* C6: every heartbeat that reaches a backup refreshes its last-heartbeat
\* timestamp (so a backup that a live primary keeps probing never times out).
C6_HeartbeatRefreshesTimestamp ==
    [][\A p \in Ports, b \in Ports :
        (HeartbeatDeliver(p, b) /\ ~is_primary[b]) => last_heartbeat'[b] = now]_vars

\* C7: once a node is primary it is primary in every later state, and the
\* node started as primary is primary in every reachable state.
C7_RoleOnlyPromotes ==
    /\ [](is_primary[PrimaryPort])
    /\ [][\A n \in Ports : is_primary[n] => is_primary'[n]]_vars

\* A node started as backup has promoted itself and has since received a
\* sync_request.
C7_Witness ==
    \E n \in Ports :
        /\ n # PrimaryPort
        /\ is_primary[n]
        /\ last_heartbeat[n] > heartbeat_timeout

\* C8: a backup whose heartbeat timeout has expired can promote itself
\* whatever the roles of the other nodes are: nothing coordinates the
\* promotions, and two promoted backups can exist side by side.
C8_PromotionUncoordinated ==
    \A b \in Ports :
        (~is_primary[b] /\ now - last_heartbeat[b] > heartbeat_timeout)
            => ENABLED heartbeat_monitor(b)

\* The primary is silent and both backups have promoted themselves.
C8_Witness ==
    /\ ~reachable[PrimaryPort]
    /\ \A i \in DOMAIN BackupPortList : is_primary[BackupPortList[i]]

\* C10: a buy or add_stock received by a node in role backup is not applied
\* to that backup; when some reachable node is primary the write is applied
\* by a node in role primary and the client gets that node's answer.
C10_WriteResolvesToCurrentPrimary ==
    [][\A b \in Ports, k \in Keys, q \in Quantities :
        (/\ ClientBuy(b, k, q) \/ ClientAddStock(b, k, q)
         /\ ~is_primary[b]
         /\ \E p \in Ports : is_primary[p] /\ reachable[p])
        => /\ inventory'[b] = inventory[b]
           /\ version_number'[b] = version_number[b]
           /\ response' # [status |-> "error", message |-> "Primary node unavailable"]
           /\ response'.status = "success" => is_primary[response'.processed_by]]_vars

\* C11: a buy or add_stock received by a backup whose primary address cannot
\* be reached is answered status=error 'Primary node unavailable', and the
\* inventory, the version and the log of the backup (and of every other node)
\* stay as they were.
C11_ForwardFailureIsSurfaced ==
    [][\A b \in Ports, k \in Keys, q \in Quantities :
        (/\ ClientBuy(b, k, q) \/ ClientAddStock(b, k, q)
         /\ ~is_primary[b]
         /\ primary_address(b) # NoAddress
         /\ ~reachable[primary_address(b)])
        => /\ response' = [status |-> "error", message |-> "Primary node unavailable"]
           /\ inventory' = inventory
           /\ version_number' = version_number
           /\ transaction_log' = transaction_log
           /\ repl_pending' = repl_pending]_vars

\* A backup holding replicated stock has just refused a write because port
\* 8000 does not answer.
C11_Witness ==
    /\ response = [status |-> "error", message |-> "Primary node unavailable"]
    /\ ~reachable[PrimaryPort]
    /\ \E b \in Ports :
        /\ ~is_primary[b]
        /\ version_number[b] = 1
        /\ TestProduct \in DOMAIN inventory[b]

\* C12: a write on a primary has the same outcome whatever backups can be
\* reached: whether it succeeds depends on the primary's stock alone, it is
\* answered before any replicate message is sent or delivered (no other node
\* changes in the step), a committed write starts one delivery thread per
\* configured backup, and a thread whose backup can be reached puts its
\* message on the wire whatever the state of the other backup.
C12_WriteIndependentOfBackups ==
    /\ [][\A n \in Ports, k \in Keys, q \in Quantities :
            (/\ ClientBuy(n, k, q) \/ ClientAddStock(n, k, q)
             /\ is_primary[n])
            => /\ ClientBuy(n, k, q) =>
                    (response'.status = "success"
                        <=> (k \in DOMAIN inventory[n] /\ inventory[n][k] >= q))
               /\ ClientAddStock(n, k, q) => response'.status = "success"
               /\ response'.status = "success" =>
                    /\ response'.processed_by = n
                    /\ \A i \in DOMAIN backup_ports[n] :
                         [src |-> n, dst |-> backup_ports[n][i],
                          transaction |-> transaction_log'[n][Len(transaction_log'[n])],
                          version |-> version_number'[n]] \in repl_pending'
               /\ repl_sent' = repl_sent
               /\ \A b \in Ports \ {n} :
                    /\ inventory'[b] = inventory[b]
                    /\ version_number'[b] = version_number[b]
                    /\ transaction_log'[b] = transaction_log[b]]_vars
    /\ [][\A t \in repl_pending :
            (ReplSend(t) /\ reachable[t.src] /\ reachable[t.dst])
            => \E m \in repl_sent' :
                  /\ m.dst = t.dst
                  /\ m.version = t.version
                  /\ m.transaction = t.transaction]_vars

\* A write has just been committed and answered by the primary while backup
\* 8001 cannot be reached; a delivery thread has been started for each backup.
C12_Witness ==
    /\ response.status = "success"
    /\ response.processed_by = PrimaryPort
    /\ ~reachable[BackupPortList[1]]
    /\ \A i \in DOMAIN BackupPortList :
         \E t \in repl_pending :
            t.dst = BackupPortList[i] /\ t.version = version_number[PrimaryPort]

\* C13: every search a primary with a load balancer receives is answered
\* status=success: at once, or when the forward it started returns; and when
\* the selected backup cannot be reached the answer comes from the primary's
\* own inventory with load_balanced=false and a fallback reason.
C13_SearchAlwaysAnswered ==
    [][/\ \A n \in Ports, peer \in ClientPorts, product \in SearchProducts :
            (ClientSearch(n, peer, product) /\ is_primary[n] /\ load_balancer[n])
            => \/ response'.status = "success"
               \/ \E f \in forwards' \ forwards : f.peer = peer
       /\ \A f \in forwards :
            ForwardReturn(f)
            => /\ response'.status = "success"
               /\ ~reachable[f.target] =>
                    /\ response'.load_balanced = FALSE
                    /\ "fallback_reason" \in DOMAIN response'
                    /\ response'.served_by = f.node
                    /\ response'.results = search_product(f.node, f.product).results]_vars

\* C14: when a forwarded read fails because the selected backup cannot be
\* reached (refused or timed out), the backup is not an active node when the
\* forward returns, and only a health cycle puts a node back on the list.
C14_FailedNodeLeavesActiveSet ==
    [][/\ \A f \in forwards :
            (ForwardReturn(f) /\ ~reachable[f.target])
            => f.target \notin SeqToSet(active_nodes'[f.node])
       /\ \A n \in Ports, b \in Ports :
            (b \notin SeqToSet(active_nodes[n]) /\ b \in SeqToSet(active_nodes'[n]))
            => backup_monitor(n) \/ heartbeat_sender(n)]_vars

\* C15: for every node's load balancer and every backup, the connection count
\* is never negative and equals the number of forwarded reads to that backup
\* that are under way.
C15_ConnectionsCountForwards ==
    \A n \in Ports, b \in Ports :
        /\ node_connections[n][b] >= 0
        /\ node_connections[n][b] =
                Cardinality({f \in forwards : f.node = n /\ f.target = b})

\* Two forwards to the same backup are under way at once.
C15_Witness ==
    \E b \in Ports :
        /\ node_connections[PrimaryPort][b] = 2
        /\ Cardinality({f \in forwards : f.target = b}) = 2

\* m consecutive calls of round_robin on the list nodes, starting with the
\* index at index: the nodes selected, up to the first call that raises.
RECURSIVE RoundRobinRun(_, _, _)
RoundRobinRun(nodes, index, m) ==
    IF m = 0 \/ index >= Len(nodes)
    THEN <<>>
    ELSE <<round_robin_select(nodes, index).node>>
            \o RoundRobinRun(nodes, round_robin_select(nodes, index).index, m - 1)

TimesSelected(run, b) == Cardinality({i \in DOMAIN run : run[i] = b})

\* C16: with N active nodes, N or 2N consecutive round_robin selections
\* starting from the index the load balancer holds select every active node
\* exactly once or twice.
C16_RoundRobinCoverage ==
    \A n \in Ports :
        (load_balancer[n] /\ active_nodes[n] # <<>>)
        => \A rounds \in 1 .. 2 :
             \A b \in SeqToSet(active_nodes[n]) :
                TimesSelected(RoundRobinRun(active_nodes[n], round_robin_index[n],
                                            rounds * Len(active_nodes[n])), b) = rounds

\* C17: after a load_balancer_config request for round_robin on a primary
\* whose active nodes are 8001, 8002, both reachable, six searches in a row
\* are forwarded to 8001, 8002, 8001, 8002, 8001, 8002.
C17_ConfiguredRoundRobinOrder ==
    [][\A n \in Ports :
        (/\ ClientConfigure(n, "round_robin")
         /\ is_primary[n] /\ load_balancer[n]
         /\ active_nodes[n] = BackupPortList
         /\ \A b \in SeqToSet(BackupPortList) : reachable[b])
        => RoundRobinRun(active_nodes'[n], round_robin_index'[n], 6)
              = [i \in 1 .. 6 |-> BackupPortList[((i - 1) % 2) + 1]]]_vars

\* C18: under hash_based, when a search of a client is forwarded to a backup,
\* the next search of the same client (which arrives over a new connection,
\* from any local port) with the active nodes unchanged goes to the same
\* backup.
C18_HashAffinity ==
    [][\A n \in Ports, peer \in ClientPorts, product \in SearchProducts :
        (/\ ClientSearch(n, peer, product)
         /\ is_primary[n] /\ load_balancer[n]
         /\ current_algorithm[n] = "hash_based")
        => \A f \in forwards' \ forwards :
             \A next_peer \in ClientPorts :
                hash_based(n, client_id(next_peer)).node = f.target]_vars

\* C19: in the state right after a backup's failover the node is primary,
\* its backup list is the other backup port, it has a new load balancer
\* (round_robin, index 0, no connections) whose list of active nodes is
\* empty, and the loops guarded by is_primary run on it.
C19_FailoverState ==
    [][\A n \in Ports :
        heartbeat_monitor(n)
        => /\ is_primary'[n]
           /\ backup_ports'[n] = SelectSeq(BackupPortList, LAMBDA p : p # n)
           /\ load_balancer'[n]
           /\ current_algorithm'[n] = "round_robin"
           /\ round_robin_index'[n] = 0
           /\ \A b \in Ports : node_connections'[n][b] = 0
           /\ active_nodes'[n] = <<>>]_vars

\* C20: the full_state of every replicate and sync_request message on the
\* wire is the primary's inventory at the version the same message carries:
\* the initial data with the first 'version' transactions of the primary's
\* log applied.
C20_MessageIsSnapshot ==
    \A m \in repl_sent \cup sync_sent :
        /\ m.version <= Len(transaction_log[PrimaryPort])
        /\ m.full_state = Replay(SubSeq(transaction_log[PrimaryPort], 1, m.version))

\* ------- C21: when a health cycle of a primary completes (a round of the
\* heartbeat loop or a cycle of the backup monitor, in any interleaving), the
\* active nodes of its load balancer are exactly the configured backups that
\* answer; a backup that does not answer is not selectable.
C21_ActiveSetIsResponders ==
    [][\A p \in Ports :
          ((heartbeat_sender(p) \/ backup_monitor(p)) /\ load_balancer[p])
              => SeqToSet(active_nodes'[p])
                     = {b \in SeqToSet(backup_ports[p]) : reachable[b]}]_vars

\* ------- C22: on every node the transaction log holds at most LogKeep (100)
\* entries, whatever buy, add_stock, replicate and sync_request operations
\* have run.
C22_LogBounded ==
    \A n \in Ports : Len(transaction_log[n]) <= LogKeep

\* ------- C23: resync is idempotent: when a sync_request has been applied by
\* a node, applying the same message once more leaves the node's inventory,
\* version number and transaction log as they are.
C23_ResyncIdempotent ==
    [][\A m \in sync_sent :
          (SyncDeliver(m) /\ received_whole(sync_bytes(m)))
              => /\ m.full_state = inventory'[m.dst]
                 /\ m.version = version_number'[m.dst]
                 /\ sync_log(transaction_log'[m.dst], m) = transaction_log'[m.dst]]_vars

\* ------- C24: a buy or add_stock request whose quantity is missing, zero or
\* negative is answered with an error and leaves every inventory and every
\* version number unchanged.
C24_MalformedRejected ==
    [][\A n \in Ports, k \in Keys :
          (\/ ClientBuyRequest(n, <<k>>)
           \/ \E q \in MalformedQuantities :
                  ClientBuyRequest(n, <<k, q>>) \/ ClientAddStock(n, k, q))
              => /\ response'.status = "error"
                 /\ inventory' = inventory
                 /\ version_number' = version_number]_vars

\* ------- C25: once the writes have stopped, every backup (each stays
\* reachable and stays a backup) eventually holds the primary's version and
\* inventory and keeps them, whatever order the replicate messages arrived in.
C25_EventualConvergence ==
    \A b \in SeqToSet(BackupPortList) :
        <>[](/\ version_number[b] = version_number[PrimaryPort]
             /\ inventory[b] = inventory[PrimaryPort])

\* ------- C26: under round_robin, whenever the active list of a load balancer
\* is not empty, the next selection does not fail and returns a member of
\* the list, whatever selections and changes of the list came before: the
\* cursor is in range when it is used.
C26_RoundRobinInRange ==
    \A n \in Ports :
        (load_balancer[n] /\ current_algorithm[n] = "round_robin"
                          /\ active_nodes[n] # <<>>)
        => /\ ~round_robin_raises(n)
           /\ round_robin(n).node \in SeqToSet(active_nodes[n])
           /\ round_robin(n).index < Len(active_nodes[n])

\* ------- C28: on the primary, which receives no replicate and no
\* sync_request message, whatever buy and add_stock requests arrive and from
\* whichever nodes: the inventory is the initial data with every committed
\* transaction applied (no update is lost), the log has version_number
\* entries and its i-th entry carries version i.
C28_NoLostUpdate ==
    /\ inventory[PrimaryPort] = Replay(transaction_log[PrimaryPort])
    /\ Len(transaction_log[PrimaryPort]) = version_number[PrimaryPort]
    /\ \A i \in DOMAIN transaction_log[PrimaryPort] :
            transaction_log[PrimaryPort][i].version = i

C28_Witness ==
    /\ version_number[PrimaryPort] = 2
    /\ transaction_log[PrimaryPort][1].type = "add_stock"
    /\ transaction_log[PrimaryPort][2].type = "buy"
    /\ inventory[PrimaryPort][TestProduct] = 0

\* ------- C29: a node that is primary never has its inventory or its version
\* number replaced by a replicate or a sync_request message it receives: the
\* delivery leaves both as they were.
C29_PrimaryNotOverwritten ==
    [][/\ \A m \in repl_sent :
            (ReplDeliver(m) /\ is_primary[m.dst])
            => /\ inventory'[m.dst] = inventory[m.dst]
               /\ version_number'[m.dst] = version_number[m.dst]
       /\ \A m \in sync_sent :
            (SyncDeliver(m) /\ is_primary[m.dst])
            => /\ inventory'[m.dst] = inventory[m.dst]
               /\ version_number'[m.dst] = version_number[m.dst]]_vars

\* ------- C30: a search a primary forwards is answered by the selected node
\* from its own inventory and is not forwarded again: every forward under way
\* carries the request of a client (one hop) and its target never relays it,
\* also after promotions.
C30_OneHop ==
    \A f \in forwards :
        /\ f.hops = 1
        /\ f.peer \in ClientPorts
        /\ f.stage = "sent"

\* ------- C27: the shared state of a load balancer is read and written only
\* under its lock: while one thread is inside a selection (it holds the lock
\* before and after the step), no step changes the active nodes, the
\* algorithm, the cursor, the connection counts or the response times of
\* that load balancer.
C27_LockGuardsSharedState ==
    [][\A f \in forwards :
          (f.stage = "selecting" /\ f \in forwards')
              => /\ active_nodes'[f.node] = active_nodes[f.node]
                 /\ current_algorithm'[f.node] = current_algorithm[f.node]
                 /\ round_robin_index'[f.node] = round_robin_index[f.node]
                 /\ node_connections'[f.node] = node_connections[f.node]
                 /\ node_response_times'[f.node] = node_response_times[f.node]]_vars

\* ------- C31: a sync_request is started only by the backup monitor of a
\* primary, for one backup of its list that answered the status probe of the
\* cycle with a version strictly below the primary's, and for that backup
\* only; and a sync_request goes on the wire only for a sync so started, to
\* the same backup.
C31_SyncOnlyToBackupBehind ==
    [][/\ \A s \in sync_pending' \ sync_pending :
            /\ sync_pending' = sync_pending \cup {s}
            /\ MonitorProbe(s.src, s.dst)
            /\ is_primary[s.src]
            /\ reachable[s.dst]
            /\ version_number[s.dst] < version_number[s.src]
            /\ s.version = version_number[s.src]
       /\ \A m \in sync_sent' \ sync_sent :
            /\ sync_sent' = sync_sent \cup {m}
            /\ \E s \in sync_pending \ sync_pending' :
                    m.src = s.src /\ m.dst = s.dst /\ m.version = s.version]_vars

C31_Witness ==
    /\ \E m \in sync_sent : m.src = PrimaryPort /\ m.dst = 8001
    /\ version_number[8001] < version_number[PrimaryPort]
    /\ version_number[8002] = version_number[PrimaryPort]
    /\ \A s \in sync_pending \cup sync_sent : s.dst # 8002

\* ------- C32: under least_connections with active nodes, the node a search
\* is forwarded to is an active node whose connection count was the lowest
\* among the active nodes, and every active node with the lowest count is one
\* the selection can return.
C32_LeastConnectionsPicksMinimum ==
    /\ [](\A n \in Ports :
            (load_balancer[n] /\ current_algorithm[n] = "least_connections"
                              /\ active_nodes[n] # <<>>)
            => \A b \in SeqToSet(active_nodes[n]) :
                  (\A d \in SeqToSet(active_nodes[n]) :
                        node_connections[n][b] <= node_connections[n][d])
                  => \E sel \in get_next_node(n, client_id(50001)) : sel.node = b)
    /\ [][\A n \in Ports, peer \in ClientPorts, product \in SearchProducts :
            (/\ ClientSearch(n, peer, product)
             /\ is_primary[n] /\ load_balancer[n]
             /\ current_algorithm[n] = "least_connections")
            => \A f \in forwards' \ forwards :
                  /\ f.node = n
                  /\ f.target \in SeqToSet(active_nodes[n])
                  /\ \A d \in SeqToSet(active_nodes[n]) :
                        node_connections[n][f.target] <= node_connections[n][d]
                  /\ node_connections'[n][f.target] = node_connections[n][f.target] + 1]_vars

C32_Witness ==
    /\ current_algorithm[PrimaryPort] = "least_connections"
    /\ active_nodes[PrimaryPort] = <<8001, 8002>>
    /\ node_connections[PrimaryPort][8001] = 1
    /\ node_connections[PrimaryPort][8002] = 1
    /\ \E f, g \in forwards : f.target = 8001 /\ g.target = 8002

\* The weight cumulated over the first i nodes of the list, on the common
\* denominator.
CumulativeWeight(nodes, weights, i) ==
    total_weight(SubSeq(nodes, 1, i), nodes, weights)

\* The weights with 1.0 written in for every node that has no entry.
WithDefaults(weights) == [b \in DOMAIN weights |-> weight_of(weights, b)]

\* ------- C33: under the weighted algorithm with active nodes, for every
\* draw from 0 to the total weight the node selected is an active node, the
\* first of the list at which the cumulated weight reaches the draw; every
\* active node with a weight above 0 is selected by some draw; a node without
\* an entry in node_weights counts as one with the weight 1.0; and a search
\* is forwarded to a node that some draw selects.
C33_WeightedSelection ==
    /\ [](\A n \in Ports :
            (load_balancer[n] /\ current_algorithm[n] = "weighted" /\ active_nodes[n] # <<>>)
            => LET nodes == active_nodes[n]
                   weights == node_weights[n]
               IN /\ \A r \in weighted_draws(nodes, weights) :
                        \E i \in DOMAIN nodes :
                            /\ weighted_scan(nodes, weights, r, 1, 0) = nodes[i]
                            /\ r <= CumulativeWeight(nodes, weights, i)
                            /\ \A j \in 1 .. (i - 1) : r > CumulativeWeight(nodes, weights, j)
                  /\ \A b \in SeqToSet(nodes) :
                        weight_of(weights, b)[1] > 0
                        => \E sel \in get_next_node(n, client_id(50001)) : sel.node = b
                  /\ weighted_draws(nodes, weights) = weighted_draws(nodes, WithDefaults(weights))
                  /\ \A r \in weighted_draws(nodes, weights) :
                        weighted_scan(nodes, weights, r, 1, 0)
                            = weighted_scan(nodes, WithDefaults(weights), r, 1, 0))
    /\ [][\A n \in Ports, peer \in ClientPorts, product \in SearchProducts :
            (/\ ClientSearch(n, peer, product)
             /\ is_primary[n] /\ load_balancer[n]
             /\ current_algorithm[n] = "weighted")
            => \A f \in forwards' \ forwards :
                  /\ f.node = n
                  /\ f.target \in SeqToSet(active_nodes[n])
                  /\ \E r \in weighted_draws(active_nodes[n], node_weights[n]) :
                        f.target = weighted_scan(active_nodes[n], node_weights[n], r, 1, 0)
                  /\ round_robin_index'[n] = round_robin_index[n]]_vars

C33_Witness ==
    /\ current_algorithm[PrimaryPort] = "weighted"
    /\ active_nodes[PrimaryPort] = <<8001, 8002>>
    /\ node_weights[PrimaryPort][8001] = NoWeight
    /\ node_weights[PrimaryPort][8002] = <<1, 2>>
    /\ \E f, g \in forwards : f.target = 8001 /\ g.target = 8002

\* ------- C34: under hash_based with active nodes, a selection made without
\* a client id returns the node at the round-robin cursor and advances the
\* cursor by one modulo the length of the active list; a selection made with
\* a client id leaves the cursor unchanged.
C34_HashFallbackIsRoundRobin ==
    [][\A n \in Ports, cid \in ClientIds :
        (/\ GetNextNode(n, cid)
         /\ current_algorithm[n] = "hash_based"
         /\ active_nodes[n] # <<>>)
        => IF cid = NoClientId
           THEN /\ response'.status = "selected"
                /\ response'.node = active_nodes[n][round_robin_index[n] + 1]
                /\ round_robin_index'[n] = (round_robin_index[n] + 1) % Len(active_nodes[n])
           ELSE round_robin_index'[n] = round_robin_index[n]]_vars

\* ------- C35: every list of response times holds at most 10 samples, and a
\* call of update_node_metrics leaves in the node's list the most recent
\* samples in the order they arrived: the new sample last, before it the
\* latest samples of the list as it was, in their order, 10 at most in all.
C35_LatencyWindow ==
    /\ [](\A n, b \in Ports : Len(node_response_times[n][b]) <= ResponseTimesKept)
    /\ [][\A n \in Ports, b \in MetricNodes, t \in MetricTimes, success \in BOOLEAN :
            UpdateNodeMetrics(n, b, t, success)
            => LET old == node_response_times[n][b]
                   new == node_response_times'[n][b]
               IN /\ Len(new) = IF Len(old) < ResponseTimesKept
                                 THEN Len(old) + 1 ELSE ResponseTimesKept
                  /\ new[Len(new)] = t
                  /\ \A i \in 1 .. (Len(new) - 1) :
                        new[i] = old[Len(old) - (Len(new) - 1) + i]
                  /\ \A c \in Ports \ {b} :
                        node_response_times'[n][c] = node_response_times[n][c]]_vars

\* Eleven calls: a failed one with 1 second, then ten with 0; the first
\* sample has left the list and the weight is the one of the tenth call.
C35_Witness ==
    /\ node_response_times[PrimaryPort][8001] = <<0, 0, 0, 0, 0, 0, 0, 0, 0, 0>>
    /\ node_weights[PrimaryPort][8001] = <<10, 1>>

\* ------- C36: a call of update_node_metrics changes neither the active
\* list, nor the connection counts, nor the round-robin index, nor the
\* algorithm; after a failed request the node's weight is 0.9 of the weight
\* the list of response times gives (or of the weight it had, when that list
\* averages 0); every weight is above 0, and every active node is one the
\* weighted selection can return.
C36_MetricsFrameAndPositiveWeight ==
    /\ [](\A n \in Ports :
            /\ \A b \in Ports : weight_of(node_weights[n], b)[1] > 0
                                 /\ weight_of(node_weights[n], b)[2] > 0
            /\ (load_balancer[n] /\ active_nodes[n] # <<>>)
               => \A b \in SeqToSet(active_nodes[n]) :
                     \E sel \in weighted_round_robin(n) : sel.node = b)
    /\ [][\A n \in Ports, b \in MetricNodes, t \in MetricTimes, success \in BOOLEAN :
            UpdateNodeMetrics(n, b, t, success)
            => /\ active_nodes' = active_nodes
               /\ node_connections' = node_connections
               /\ round_robin_index' = round_robin_index
               /\ current_algorithm' = current_algorithm
               /\ \A c \in Ports \ {b} : node_weights'[n][c] = node_weights[n][c]
               /\ (~success /\ response' # Raised)
                  => LET times == node_response_times'[n][b]
                         base == IF Sum(times) > 0
                                 THEN <<Len(times), Sum(times)>>
                                 ELSE node_weights[n][b]
                         new == node_weights'[n][b]
                     IN  10 * new[1] * base[2] = 9 * base[1] * new[2]]_vars

\* Three failed requests in a row measured at 0 seconds, for an active node
\* that another is listed with: its weight is 0.9 * 0.9 * 0.9.
C36_Witness ==
    /\ active_nodes[PrimaryPort] = <<8001, 8002>>
    /\ node_response_times[PrimaryPort][8001] = <<0, 0, 0>>
    /\ node_weights[PrimaryPort][8001] = <<729, 1000>>

\* Everything but the response of the last step.
NodeState ==
    <<is_primary, reachable, inventory, version_number, transaction_log,
      last_heartbeat, backup_ports, now, repl_pending, repl_sent,
      sync_pending, sync_sent, heartbeats, lbvars>>

HistoriesDiffer(p) ==
    \E b, c \in Ports : /\ node_response_times[p][b] # <<>>
                         /\ node_response_times[p][c] # <<>>
                         /\ Len(node_response_times[p][b]) # Len(node_response_times[p][c])

\* ------- C38: the algorithm of a balancer changes only by a
\* load_balancer_config request answered with success, or by the auto-tuning
\* task; and the auto-tuning task changes it only from round_robin to
\* weighted, with more than one active node and lists of response times of
\* different lengths: an algorithm that is weighted, least_connections or
\* hash_based is never changed by it.
C38_AlgorithmChanges ==
    [][\A n \in Ports :
        current_algorithm'[n] # current_algorithm[n]
        => \/ \E algorithm \in Algorithms :
                /\ ClientConfigure(n, algorithm)
                /\ response'.status = "success"
           \/ /\ TuneSet(n)
              /\ current_algorithm[n] = "round_robin"
              /\ current_algorithm'[n] = "weighted"
              /\ Len(active_nodes[n]) > 1
              /\ HistoriesDiffer(n)]_vars

\* ------- C39: an add_stock request for a quantity above 0 received by a
\* primary is answered with success; a key that was missing is created with
\* that quantity, a key that was there has the quantity added to what it
\* held; new_quantity of the answer is the quantity now stored; every key
\* that was in the inventory is still there, the others with the quantity
\* they had.
C39_AddStockGrowsOnly ==
    [][\A n \in Ports, k \in Keys, q \in AddQuantities :
        (ClientAddStock(n, k, q) /\ is_primary[n])
        => /\ response'.status = "success"
           /\ response'.processed_by = n
           /\ DOMAIN inventory[n] \subseteq DOMAIN inventory'[n]
           /\ k \in DOMAIN inventory'[n]
           /\ inventory'[n][k] = IF k \in DOMAIN inventory[n]
                                 THEN inventory[n][k] + q ELSE q
           /\ response'.new_quantity = inventory'[n][k]
           /\ \A j \in DOMAIN inventory[n] \ {k} : inventory'[n][j] = inventory[n][j]]_vars

\* Two add_stock requests for the same new key, answered by the primary.
C39_Witness ==
    /\ response.status = "success"
    /\ "new_quantity" \in DOMAIN response
    /\ response.new_quantity = 2 * MaxAddQty
    /\ inventory[PrimaryPort] = (TestProduct :> 2 * MaxAddQty) @@ load_initial_data
    /\ transaction_log[PrimaryPort][1].type = "add_stock"
    /\ transaction_log[PrimaryPort][2].type = "add_stock"
====
